---- MODULE Spec2Model ----
(***************************************************************************)
(* Automation supervisor of WranglerMaster (wrangler_master.py).           *)
(*                                                                         *)
(* Two threads share the application object without any lock:              *)
(*   "poll" - the daemon thread of _start_polling: _refresh_all_async,     *)
(*            _check_timers, _check_schedules, sleep, repeat;              *)
(*   "ui"   - the Tk main loop, which runs the button handlers             *)
(*            (_add_instance_dialog, _on_panel_remove,                     *)
(*            _on_panel_advanced_run and the _start_*_mode it calls).     *)
(* A step of the model is a run of one thread between two points where the *)
(* other thread can get the interpreter: a dictionary iteration step, a    *)
(* blocking status request, a statement of the removal handler.            *)
(*                                                                         *)
(* Time is the wall clock in seconds since local midnight of day 0.        *)
(***************************************************************************)
EXTENDS Integers, Sequences, FiniteSets, TLC

\* ------------------------------------------------------------------------
\* Bounds of the exploration
\* ------------------------------------------------------------------------
\* The clock is looked at every TicksPerStep poll intervals, up to MaxNow
\* seconds.
TicksPerStep == 6
MaxNow == 120
\* Number of user actions (add, remove, advanced run) in one behaviour.
MaxUserOps == 2
\* Number of consecutive unreachable in-window passes the claims speak of.
UnreachableTicks == 3
\* Number of stop workers one agent can have at a time.
MaxWorkers == 2
\* Last minute of the day at which a configuration is tried (SpecInputs).
MaxMinute == 1439

\* ------------------------------------------------------------------------
\* Values
\* ------------------------------------------------------------------------
\* POLL_INTERVAL_MS, and the clock step in seconds.
POLL_INTERVAL_MS == 10000
ClockStep == TicksPerStep * (POLL_INTERVAL_MS \div 1000)

Modes == {"none", "timer", "schedule"}

\* Agent identities: the key f"{instance.host}:{instance.port}".
Agents == {"a1", "a2"}
\* The registry list is explored up to this length.
MaxInstances == Cardinality(Agents)
Threads == {"poll", "ui"}
\* Python None, and the key of a deleted dictionary entry.
NoKey == "-"
NoAction == "None"
NoTime == 0 - 1

\* AdvancedRunConfig values the dialog hands over (already validated).
TimerConfigs ==
    { [timer_hours |-> 0, timer_minutes |-> 1, use_resume |-> r] : r \in BOOLEAN }
ScheduleConfigs ==
    { [schedule_start_hour |-> 0, schedule_start_minute |-> w[1],
       schedule_end_hour |-> 0, schedule_end_minute |-> w[2],
       use_resume |-> r] : w \in {<<1, 2>>}, r \in BOOLEAN }
\* The configurations and the times of day of SpecInputs: a same-day, an
\* overnight and an empty window; timers with hours and minutes; the first
\* and the last second of every minute.
WindowConfigs ==
    { [schedule_start_hour |-> w[1], schedule_start_minute |-> 0,
       schedule_end_hour |-> w[2], schedule_end_minute |-> 0,
       use_resume |-> FALSE] : w \in {<<8, 22>>, <<22, 6>>, <<8, 8>>} }
\* The window of SpecDaily, 00:02 to 00:01 of the next day: two of its daily
\* occurrences meet the clock, the one that ends at 00:01 and the one that
\* begins at 00:02.
DailyConfigs ==
    { [schedule_start_hour |-> 0, schedule_start_minute |-> 2,
       schedule_end_hour |-> 0, schedule_end_minute |-> 1,
       use_resume |-> r] : r \in BOOLEAN }
DurationConfigs ==
    { [timer_hours |-> d[1], timer_minutes |-> d[2], use_resume |-> r] :
        d \in {<<0, 1>>, <<1, 30>>, <<2, 0>>}, r \in BOOLEAN }
ProbeTimes == { m * 60 + sec : m \in 0..MaxMinute, sec \in {0, 59} }
Instance(k, m) == [key |-> k, mode |-> m, enabled |-> TRUE]
NoInstance == Instance(NoKey, "none")

\* InstanceStatus as the supervisor reads it: "unreachable" is the default
\* object (reachable = False, is_executing = False), "idle" and "executing"
\* are reachable with is_executing False / True.
Statuses == {"unreachable", "idle", "executing"}
is_executing(st) == st = "executing"
reachable(st) == st # "unreachable"

\* A dispatched request: the worker thread started for it.
NoDispatch == [agent |-> NoKey, kind |-> NoKey, src |-> NoKey]
Dispatch(a, kind, src) == [agent |-> a, kind |-> kind, src |-> src]
StartKind(use_resume) == IF use_resume THEN "resume" ELSE "run"

\* ------------------------------------------------------------------------
\* Python dict: insertion-ordered entries, a deleted entry leaves a dummy.
\* ------------------------------------------------------------------------
Live(d) == {i \in DOMAIN d : d[i].key # NoKey}
Keys(d) == {d[i].key : i \in Live(d)}
Has(d, k) == k \in Keys(d)
Idx(d, k) == CHOOSE i \in Live(d) : d[i].key = k
Get(d, k) == d[Idx(d, k)]
Put(d, e) == IF Has(d, e.key) THEN [d EXCEPT ![Idx(d, e.key)] = e] ELSE Append(d, e)
\* Variant of Del: every entry goes.
Del_every_key(d, k) == [i \in DOMAIN d |-> [d[i] EXCEPT !.key = NoKey]]

Del(d, k) == [d EXCEPT ![Idx(d, k)].key = NoKey]
\* Iterator over a dict: pos = index of the last entry handed out, used = the
\* dict's size when the iteration began.
NoIter == [pos |-> 0, used |-> 0]
NewIter(d) == [pos |-> 0, used |-> Cardinality(Live(d))]
IterRaises(d, it) == Cardinality(Live(d)) # it.used
IterRest(d, it) == {i \in Live(d) : i > it.pos}
IterDone(d, it) == ~IterRaises(d, it) /\ IterRest(d, it) = {}
IterNext(d, it) == CHOOSE i \in IterRest(d, it) : \A j \in IterRest(d, it) : i <= j

VARIABLES
    instances,         \* self.instances: list of [key, mode, enabled] (WranglerInstance)
    active_timers,     \* self.active_timers
    active_schedules,  \* self.active_schedules
    now,               \* datetime.now(), seconds
    down,              \* agents whose HTTP endpoint fails its requests
    pc,                \* where each thread is
    pass,              \* locals of a thread inside _check_schedule_for_instance
    tickNow,           \* local "now" of _check_timers
    keys_to_remove,    \* local list of _check_timers
    timer_data,        \* local of _check_timers: the timer the loop is at
    workers,           \* per agent: the do_stop threads that are running
    go_home_after_session,  \* per agent: the flag of its WranglerInstance
    iter,              \* the poll thread's dictionary iterator
    rmKey,             \* the instance _on_panel_remove is removing
    opsLeft,           \* user actions left
    snapshot,          \* per agent: the status _refresh_all_async fetched
                       \* in the current round of the poll loop
    shown,             \* per agent: the status its panel displays
    polling_active,    \* self.polling_active
    bulk,              \* locals of the do_resume_all thread
    sent,              \* the request dispatched by the last step
    owed               \* end_time of the agent's timer that has not fired yet

vars == <<instances, active_timers, active_schedules, now, down, pc, pass,
          tickNow, keys_to_remove, timer_data, workers, go_home_after_session,
          iter, rmKey, opsLeft, snapshot, shown, polling_active, bulk,
          sent, owed>>

NoPass == [key |-> NoKey, use_resume |-> FALSE, in_window |-> FALSE,
           last_action |-> NoAction, status |-> "unreachable", orphan |-> FALSE]

\* No timer in hand.  orphan: the dict object in hand is no longer the value
\* stored under its key (the key was deleted or assigned again).
NoTimer == [key |-> NoKey, end_time |-> 0, stopped |-> FALSE, orphan |-> FALSE]

\* The do_stop threads of one agent: settle of them have sent the stop and
\* are before the test of go_home_after_session, home of them are after it
\* and before their go_home request.
NoWorkers == [settle |-> 0, home |-> 0]

\* The round's _refresh_all_async has made no status request for the agent.
NotFetched == "none"

\* The do_resume_all thread: at = where it is ("idle": not started), pos =
\* index of the list iterator of "for instance in self.instances", the three
\* counters, the status its last get_status returned; counted and resumed =
\* the keys it has counted and sent a resume to, flet_resumed = the keys the
\* loop of the Flet application sends a resume to for the same statuses.
NoBulk == [at |-> "idle", pos |-> 0, successes |-> 0, failures |-> 0, skipped |-> 0,
           status |-> "unreachable", has_incomplete_orders |-> FALSE,
           counted |-> << >>, resumed |-> << >>, flet_resumed |-> << >>]

Min(a, b) == IF a <= b THEN a ELSE b

\* ------------------------------------------------------------------------
\* Pure functions of the source
\* ------------------------------------------------------------------------
\* _start_timer_mode: duration_seconds and end_time.
\* Variant: the hours counted as minutes.
duration_seconds_hours_as_minutes(config) ==
    config.timer_hours * 60 + config.timer_minutes * 60

duration_seconds(config) == config.timer_hours * 3600 + config.timer_minutes * 60
end_time(t, config) == t + duration_seconds(config)

\* _check_schedule_for_instance: now.hour * 60 + now.minute.
current_minutes(t) == ((t \div 3600) % 24) * 60 + ((t \div 60) % 60)
start_minutes(config) == config.schedule_start_hour * 60 + config.schedule_start_minute
end_minutes(config) == config.schedule_end_hour * 60 + config.schedule_end_minute
\* Variants of in_window: the end minute inside a same-day window,
in_window_closed_end(config, t) ==
    IF start_minutes(config) <= end_minutes(config)
    THEN start_minutes(config) <= current_minutes(t) /\ current_minutes(t) <= end_minutes(config)
    ELSE current_minutes(t) >= start_minutes(config) \/ current_minutes(t) < end_minutes(config)

\* "and" for "or" in an overnight window.
in_window_overnight_and(config, t) ==
    IF start_minutes(config) <= end_minutes(config)
    THEN start_minutes(config) <= current_minutes(t) /\ current_minutes(t) < end_minutes(config)
    ELSE current_minutes(t) >= start_minutes(config) /\ current_minutes(t) < end_minutes(config)

\* a window with start = end taken for the whole day.
in_window_full_day(config, t) ==
    IF start_minutes(config) = end_minutes(config) THEN TRUE
    ELSE IF start_minutes(config) < end_minutes(config)
    THEN start_minutes(config) <= current_minutes(t) /\ current_minutes(t) < end_minutes(config)
    ELSE current_minutes(t) >= start_minutes(config) \/ current_minutes(t) < end_minutes(config)

in_window(config, t) ==
    IF start_minutes(config) <= end_minutes(config)
    THEN start_minutes(config) <= current_minutes(t) /\ current_minutes(t) < end_minutes(config)
    ELSE current_minutes(t) >= start_minutes(config) \/ current_minutes(t) < end_minutes(config)

\* What requests.get(".../status") can come to: an exception (outcome
\* ConnectionError, Timeout or any other), or a response with a status code
\* and a body that is a JSON object with isExecuting true ("executing") or
\* not ("idle"), JSON of another type ("not_object") or no JSON
\* ("malformed").
Bodies == {"idle", "executing", "not_object", "malformed"}
Raised == { [outcome |-> o, code |-> 0, body |-> "malformed"] :
              o \in {"ConnectionError", "Timeout", "Exception"} }
Answered == { [outcome |-> "response", code |-> c, body |-> b] :
                c \in {200, 404, 500}, b \in Bodies }
Answers == { r \in Answered : r.code = 200 /\ r.body \in {"idle", "executing"} }
Failures == Raised \cup (Answered \ Answers)

\* Variant of status_of: any body of a 200 response is taken for a status.
status_of_any_body(r) ==
    IF r.outcome # "response" THEN "unreachable"
    ELSE IF r.code # 200 THEN "unreachable"
    ELSE IF r.body = "executing" THEN "executing" ELSE "idle"

\* WranglerClient.get_status on the outcome r of its request: the status
\* object stays at its default (reachable = False) unless the response has
\* code 200 and response.json() and the data.get calls go through.
status_of(r) ==
    IF r.outcome # "response" THEN "unreachable"
    ELSE IF r.code # 200 THEN "unreachable"
    ELSE IF r.body \in {"malformed", "not_object"} THEN "unreachable"
    ELSE r.body

\* WranglerClient.get_status for agent k: the agents of down fail the
\* request in one of the ways of Failures, the others answer.
get_status(k) ==
    { status_of(r) : r \in IF k \in down THEN Failures ELSE Answers }

Init ==
    /\ instances \in {<< >>, <<Instance("a1", "none")>>}
    /\ active_timers = << >>
    /\ active_schedules = << >>
    /\ now = 0
    /\ down = {}
    /\ pc = [t \in Threads |-> IF t = "poll" THEN "refresh" ELSE "idle"]
    /\ pass = [t \in Threads |-> NoPass]
    /\ tickNow = 0
    /\ keys_to_remove = << >>
    /\ timer_data = NoTimer
    /\ workers = [a \in Agents |-> NoWorkers]
    /\ go_home_after_session = [a \in Agents |-> FALSE]
    /\ iter = NoIter
    /\ rmKey = NoInstance
    /\ opsLeft = MaxUserOps
    /\ sent = NoDispatch
    /\ owed = [a \in Agents |-> NoTime]
    /\ snapshot = [a \in Agents |-> NotFetched]
    /\ shown = [a \in Agents |-> NotFetched]
    /\ polling_active = TRUE
    /\ bulk = NoBulk

\* ------------------------------------------------------------------------
\* The stop workers (do_stop of _check_timers and of
\* _check_schedule_for_instance)
\* ------------------------------------------------------------------------
MayStartWorker(a) == workers[a].settle + workers[a].home < MaxWorkers

\* Variant: the new thread begins after the test of the flag.
start_do_stop_at_home(w, a) == [w EXCEPT ![a].home = @ + 1]

\* threading.Thread(target=do_stop).start(): stop_gently is on its way.
start_do_stop(w, a) == [w EXCEPT ![a].settle = @ + 1]

\* Variant: the flag is not looked at.
goes_home_always(a) == TRUE

\* "if inst.go_home_after_session" of do_stop.
goes_home(a) == go_home_after_session[a]

\* do_stop after stop_gently: the settle delay, the status for the panel and
\* the test of the flag.
do_stop_settled(a) ==
    /\ workers[a].settle > 0
    /\ workers' = [workers EXCEPT
                     ![a].settle = @ - 1,
                     ![a].home = IF goes_home(a) THEN @ + 1 ELSE @]
    /\ sent' = NoDispatch
    /\ UNCHANGED <<instances, active_timers, active_schedules, now, down, pc, pass,
                   tickNow, keys_to_remove, timer_data, go_home_after_session,
                   iter, rmKey, opsLeft, owed, snapshot, shown, polling_active, bulk>>

\* do_stop with the flag set: the second delay and WranglerClient.go_home.
do_stop_go_home(a) ==
    /\ workers[a].home > 0
    /\ workers' = [workers EXCEPT ![a].home = @ - 1]
    /\ sent' = Dispatch(a, "go_home", "do_stop")
    /\ UNCHANGED <<instances, active_timers, active_schedules, now, down, pc, pass,
                   tickNow, keys_to_remove, timer_data, go_home_after_session,
                   iter, rmKey, opsLeft, owed, snapshot, shown, polling_active, bulk>>

\* ------------------------------------------------------------------------
\* The poll thread (_start_polling.poll)
\* ------------------------------------------------------------------------
\* _refresh_all_async: one status request per enabled instance; the results
\* go to the panels only (snapshot keeps them for the round).
refresh_all_async ==
    /\ pc["poll"] = "refresh"
    /\ snapshot' \in
         { f \in [Agents -> Statuses \cup {NotFetched}] :
             \A a \in Agents :
                IF \E i \in DOMAIN instances :
                      instances[i].key = a /\ instances[i].enabled
                THEN f[a] \in get_status(a)
                ELSE f[a] = NotFetched }
    /\ pc' = [pc EXCEPT !["poll"] = "check_timers"]
    /\ sent' = NoDispatch
    /\ UNCHANGED <<instances, active_timers, active_schedules, now, down, pass,
                   tickNow, keys_to_remove, iter, rmKey, opsLeft, owed, timer_data,
                   workers, go_home_after_session,
                   shown, polling_active, bulk>>

\* _check_timers, lines 1731-1734: now, keys_to_remove, the iterator.
check_timers_begin ==
    /\ pc["poll"] = "check_timers"
    /\ tickNow' = now
    /\ keys_to_remove' = << >>
    /\ iter' = NewIter(active_timers)
    /\ pc' = [pc EXCEPT !["poll"] = "timers"]
    /\ sent' = NoDispatch
    /\ UNCHANGED <<instances, active_timers, active_schedules, now, down, pass,
                   rmKey, opsLeft, owed, timer_data,
                   workers, go_home_after_session, snapshot, shown, polling_active, bulk>>

\* An uncaught exception ends the poll thread.
poll_raises ==
    /\ pc' = [pc EXCEPT !["poll"] = "crashed"]
    /\ sent' = NoDispatch
    /\ UNCHANGED <<instances, active_timers, active_schedules, now, down, pass,
                   tickNow, keys_to_remove, iter, rmKey, opsLeft, owed, timer_data,
                   workers, go_home_after_session, snapshot, shown, polling_active, bulk>>

\* The test of lines 1735-1738 on one timer.
timer_expired(t, td) == ~td.stopped /\ t >= td.end_time

\* "for key, timer_data in self.active_timers.items()": the iterator hands
\* out the next timer.
check_timers_loop ==
    /\ pc["poll"] = "timers"
    /\ IF IterRaises(active_timers, iter)
       THEN poll_raises
       ELSE IF IterDone(active_timers, iter)
       THEN /\ pc' = [pc EXCEPT !["poll"] = "cleanup"]
            /\ sent' = NoDispatch
            /\ UNCHANGED <<instances, active_timers, active_schedules, now, down,
                           pass, tickNow, keys_to_remove, timer_data, iter, rmKey,
                           opsLeft, owed,
                   workers, go_home_after_session, snapshot, shown, polling_active, bulk>>
       ELSE LET i == IterNext(active_timers, iter)
            IN /\ iter' = [iter EXCEPT !.pos = i]
               /\ timer_data' = [key |-> active_timers[i].key,
                                 end_time |-> active_timers[i].end_time,
                                 stopped |-> active_timers[i].stopped,
                                 orphan |-> FALSE]
               /\ pc' = [pc EXCEPT !["poll"] = "timer_test"]
               /\ sent' = NoDispatch
               /\ UNCHANGED <<instances, active_timers, active_schedules, now, down,
                              pass, tickNow, keys_to_remove, rmKey, opsLeft, owed,
                   workers, go_home_after_session, snapshot, shown, polling_active, bulk>>

\* The loop body, lines 1735-1757, on the timer in hand: an expired timer is
\* marked, its key queued and the stop worker started.
check_timers_body ==
    /\ pc["poll"] = "timer_test"
    /\ IF timer_expired(tickNow, timer_data)
       THEN /\ MayStartWorker(timer_data.key)
            /\ workers' = start_do_stop(workers, timer_data.key)
            /\ active_timers' =
                 IF timer_data.orphan THEN active_timers
                 ELSE [active_timers EXCEPT
                         ![Idx(active_timers, timer_data.key)].stopped = TRUE]
            /\ keys_to_remove' = Append(keys_to_remove, timer_data.key)
            /\ sent' = Dispatch(timer_data.key, "stop", "timer")
            /\ owed' = IF timer_data.orphan THEN owed
                       ELSE [owed EXCEPT ![timer_data.key] = NoTime]
       ELSE /\ sent' = NoDispatch
            /\ UNCHANGED <<active_timers, keys_to_remove, owed, workers, snapshot, shown, polling_active, bulk>>
    /\ timer_data' = NoTimer
    /\ pc' = [pc EXCEPT !["poll"] = "timers"]
    /\ UNCHANGED <<instances, active_schedules, now, down, pass, tickNow, iter,
                   rmKey, opsLeft, go_home_after_session, snapshot, shown, polling_active, bulk>>

\* One round of "for key in keys_to_remove: del self.active_timers[key]",
\* then _check_schedules begins its iteration.
check_timers_cleanup ==
    /\ pc["poll"] = "cleanup"
    /\ IF keys_to_remove = << >>
       THEN /\ pc' = [pc EXCEPT !["poll"] = "schedules"]
            /\ iter' = NewIter(active_schedules)
            /\ sent' = NoDispatch
            /\ UNCHANGED <<instances, active_timers, active_schedules, now, down,
                           pass, tickNow, keys_to_remove, rmKey, opsLeft, owed, timer_data,
                   workers, go_home_after_session, snapshot, shown, polling_active, bulk>>
       ELSE IF ~Has(active_timers, Head(keys_to_remove))
       THEN poll_raises
       ELSE /\ active_timers' = Del(active_timers, Head(keys_to_remove))
            /\ keys_to_remove' = Tail(keys_to_remove)
            /\ sent' = NoDispatch
            /\ UNCHANGED <<instances, active_schedules, now, down, pc, pass,
                           tickNow, iter, rmKey, opsLeft, owed, timer_data,
                   workers, go_home_after_session, snapshot, shown, polling_active, bulk>>

\* _check_schedule_for_instance, lines 1769-1787, run by thread t for key k:
\* the locals read from the schedule, in_window, and the status request.
read_schedule(t, k) ==
    LET schedule_data == Get(active_schedules, k)
    IN \E st \in get_status(k) :
         pass' = [pass EXCEPT ![t] =
                    [key |-> k,
                     use_resume |-> schedule_data.config.use_resume,
                     in_window |-> in_window(schedule_data.config, now),
                     last_action |-> schedule_data.last_action,
                     status |-> st,
                     orphan |-> FALSE]]

\* One round of "for key in self.active_schedules", up to the status request.
check_schedules_loop ==
    /\ pc["poll"] = "schedules"
    /\ IF IterRaises(active_schedules, iter)
       THEN poll_raises
       ELSE IF IterDone(active_schedules, iter)
       THEN /\ pc' = [pc EXCEPT !["poll"] = "sleep"]
            /\ sent' = NoDispatch
            /\ UNCHANGED <<instances, active_timers, active_schedules, now, down,
                           pass, tickNow, keys_to_remove, iter, rmKey, opsLeft,
                           owed, timer_data,
                   workers, go_home_after_session, snapshot, shown, polling_active, bulk>>
       ELSE LET i == IterNext(active_schedules, iter)
            IN /\ iter' = [iter EXCEPT !.pos = i]
               /\ read_schedule("poll", active_schedules[i].key)
               /\ pc' = [pc EXCEPT !["poll"] = "sched_decide"]
               /\ sent' = NoDispatch
               /\ UNCHANGED <<instances, active_timers, active_schedules, now, down,
                              tickNow, keys_to_remove, rmKey, opsLeft, owed, timer_data,
                   workers, go_home_after_session, snapshot, shown, polling_active, bulk>>

\* Variants of the decision that the schedule claims must tell from it:
\* a start only after a recorded stop,
schedule_action_start_after_stop(inw, last_action, st) ==
    IF inw
    THEN IF last_action = "stopped" /\ ~is_executing(st) THEN "started" ELSE NoAction
    ELSE IF last_action # "stopped" /\ is_executing(st) THEN "stopped" ELSE NoAction

\* a stop only after a recorded start,
schedule_action_stop_after_start(inw, last_action, st) ==
    IF inw
    THEN IF last_action # "started" /\ ~is_executing(st) THEN "started" ELSE NoAction
    ELSE IF last_action = "started" /\ is_executing(st) THEN "stopped" ELSE NoAction

\* a start on every in-window pass.
schedule_action_always_start(inw, last_action, st) ==
    IF inw
    THEN "started"
    ELSE IF last_action # "stopped" /\ is_executing(st) THEN "stopped" ELSE NoAction

\* The decision of lines 1789-1811: the last_action to record, or NoAction.
schedule_action(inw, last_action, st) ==
    IF inw
    THEN IF last_action # "started" /\ ~is_executing(st) THEN "started" ELSE NoAction
    ELSE IF last_action # "stopped" /\ is_executing(st) THEN "stopped" ELSE NoAction

\* Variant: a pass that dispatches nothing clears the recorded action.
last_action_reset_on_skip(last_action, act) == act

\* schedule_data["last_action"] after the decision: assigned only in the
\* branch that dispatches.
last_action_after(last_action, act) == IF act = NoAction THEN last_action ELSE act

\* Count of consecutive passes that found the agent unreachable in-window.
Misses(p, n) ==
    IF p.in_window /\ ~reachable(p.status) THEN Min(n + 1, UnreachableTicks) ELSE 0

\* _check_schedule_for_instance, lines 1789-1827, after the status request
\* has returned: thread t decides on its locals and starts the worker.
\* Besides last_action the entry carries the history the claims speak of:
\* misses (see Misses), failed (the request of the schedule's last dispatch
\* went to an agent whose endpoint was failing) and started_here (a start of
\* the schedule has been dispatched since its last pass outside the window).
check_schedule_decide(t) ==
    /\ pc[t] = "sched_decide"
    /\ LET p == pass[t]
           act == schedule_action(p.in_window, p.last_action, p.status)
       IN /\ active_schedules' =
               IF p.orphan THEN active_schedules
               ELSE [active_schedules EXCEPT ![Idx(active_schedules, p.key)] =
                       [@ EXCEPT !.last_action = last_action_after(@, act),
                                 !.misses = Misses(p, @),
                                 !.failed = IF act = NoAction THEN @
                                            ELSE p.key \in down,
                                 !.started_here = IF act = "started" THEN TRUE
                                                  ELSE IF p.in_window THEN @
                                                  ELSE FALSE]]
          /\ sent' = IF act = "started"
                     THEN Dispatch(p.key, StartKind(p.use_resume), "schedule")
                     ELSE IF act = "stopped"
                     THEN Dispatch(p.key, "stop", "schedule")
                     ELSE NoDispatch
          /\ act = "stopped" => MayStartWorker(p.key)
          /\ workers' = IF act = "stopped" THEN start_do_stop(workers, p.key)
                        ELSE workers
    /\ pc' = [pc EXCEPT ![t] = IF t = "poll" THEN "schedules" ELSE "idle"]
    /\ pass' = [pass EXCEPT ![t] = NoPass]
    /\ UNCHANGED <<instances, active_timers, now, down, tickNow, keys_to_remove,
                   iter, rmKey, opsLeft, owed, timer_data, go_home_after_session, snapshot, shown, polling_active, bulk>>

\* Variant: the loop does not look at the flag.
loop_continues_always(flag) == TRUE

\* "while self.polling_active" of poll().
loop_continues(flag) == flag

\* time.sleep(POLL_INTERVAL_MS / 1000), then the test of the loop: the next
\* round, or the end of the thread.
poll_sleep ==
    /\ pc["poll"] = "sleep"
    /\ pc' = [pc EXCEPT !["poll"] =
                IF loop_continues(polling_active) THEN "refresh" ELSE "done"]
    /\ snapshot' = [a \in Agents |-> NotFetched]
    /\ tickNow' = 0
    /\ iter' = NoIter
    /\ sent' = NoDispatch
    /\ UNCHANGED <<instances, active_timers, active_schedules, now, down, pass,
                   keys_to_remove, rmKey, opsLeft, owed, timer_data,
                   workers, go_home_after_session,
                   shown, polling_active, bulk>>

\* ------------------------------------------------------------------------
\* The UI thread (button handlers)
\* ------------------------------------------------------------------------
UserMay == pc["ui"] = "idle" /\ opsLeft > 0
\* _refresh_panels: only an enabled instance has a panel with its buttons.
HasPanel(i) == i \in DOMAIN instances /\ instances[i].enabled
\* Agent a has an enabled instance.
Enabled(a) == \E i \in DOMAIN instances : instances[i].key = a /\ instances[i].enabled
\* The keys of self.panels: _refresh_panels rebuilds the dict from
\* self.instances in every handler that changes the list, before the handler
\* returns.
panels == {instances[i].key : i \in {j \in DOMAIN instances : instances[j].enabled}}
\* _refresh_panels destroys every panel and creates new ones, which display
\* no status yet.
refresh_panels == [a \in Agents |-> NotFetched]

\* Variant of _update_panel: no test of the key.
update_panel_applies_any(key) == TRUE

\* _update_panel: "if key in self.panels".
update_panel_applies(key) == key \in panels

\* The callback _refresh_all_async has posted for agent a with
\* self.after(0, ...) runs on the UI thread: _update_panel with the status
\* fetched in this round.
update_panel(a) ==
    /\ pc["ui"] = "idle"
    /\ snapshot[a] # NotFetched
    /\ shown' = IF update_panel_applies(a)
                THEN [shown EXCEPT ![a] = snapshot[a]]
                ELSE shown
    /\ sent' = NoDispatch
    /\ UNCHANGED <<instances, active_timers, active_schedules, now, down, pc, pass,
                   tickNow, keys_to_remove, timer_data, workers,
                   go_home_after_session, iter, rmKey, opsLeft, owed, snapshot,
                   polling_active, bulk>>

\* The poll thread's loop holds the timer of key k, or its pass the schedule
\* of key k, and loses it when the entry is deleted or replaced: the dict
\* object in hand is no longer the one in the map.
OrphanedTimer(k) ==
    [timer_data EXCEPT !.orphan = @ \/ (pc["poll"] = "timer_test" /\ timer_data.key = k)]

Orphaned(k) ==
    [pass EXCEPT !["poll"].orphan = @ \/ (pc["poll"] = "sched_decide" /\ pass["poll"].key = k)]

\* _add_instance_dialog: append, with no test for an existing (host, port).
add_instance_dialog(k) ==
    /\ UserMay
    /\ Len(instances) < MaxInstances
    /\ instances' = Append(instances, Instance(k, "none"))
    /\ shown' = refresh_panels
    /\ opsLeft' = opsLeft - 1
    /\ sent' = NoDispatch
    /\ UNCHANGED <<active_timers, active_schedules, now, down, pc, pass, tickNow,
                   keys_to_remove, iter, rmKey, owed, timer_data,
                   workers, go_home_after_session, snapshot, polling_active, bulk>>

\* _on_panel_remove, lines 1832-1836: the timer and the schedule of the key.
on_panel_remove(i) ==
    /\ UserMay
    /\ HasPanel(i)
    /\ LET key == instances[i].key
       IN /\ active_timers' = IF Has(active_timers, key) THEN Del(active_timers, key)
                              ELSE active_timers
          /\ active_schedules' = IF Has(active_schedules, key)
                                 THEN Del(active_schedules, key) ELSE active_schedules
          /\ pass' = Orphaned(key)
          /\ timer_data' = OrphanedTimer(key)
          /\ owed' = [owed EXCEPT ![key] = NoTime]
          /\ rmKey' = instances[i]
    /\ pc' = [pc EXCEPT !["ui"] = "removing"]
    /\ opsLeft' = opsLeft - 1
    /\ sent' = NoDispatch
    /\ UNCHANGED <<instances, now, down, tickNow, keys_to_remove, iter,
                   workers, go_home_after_session, snapshot, shown, polling_active, bulk>>

\* list.remove: the first element equal to x goes.
ListRemove(l, x) ==
    LET j == CHOOSE n \in DOMAIN l : l[n] = x /\ \A m \in 1..(n - 1) : l[m] # x
    IN [n \in 1..(Len(l) - 1) |-> IF n < j THEN l[n] ELSE l[n + 1]]

\* _on_panel_remove, lines 1838-1841: the instance leaves the list.
on_panel_remove_instance ==
    /\ pc["ui"] = "removing"
    /\ instances' = ListRemove(instances, rmKey)
    /\ shown' = refresh_panels
    /\ rmKey' = NoInstance
    /\ pc' = [pc EXCEPT !["ui"] = "idle"]
    /\ sent' = NoDispatch
    /\ UNCHANGED <<active_timers, active_schedules, now, down, pass, tickNow,
                   keys_to_remove, iter, opsLeft, owed, timer_data,
                   workers, go_home_after_session, snapshot, polling_active, bulk>>

\* InstancePanel._on_go_home_toggle: the checkbox of the panel.
on_go_home_toggle(i) ==
    /\ UserMay
    /\ HasPanel(i)
    /\ go_home_after_session' =
         [go_home_after_session EXCEPT ![instances[i].key] = ~@]
    /\ opsLeft' = opsLeft - 1
    /\ sent' = NoDispatch
    /\ UNCHANGED <<instances, active_timers, active_schedules, now, down, pc, pass,
                   tickNow, keys_to_remove, timer_data, workers, iter, rmKey, owed, snapshot, shown, polling_active, bulk>>

\* instance.set_advanced_config(config) of _on_panel_advanced_run.
set_advanced_config(i, m) == [instances EXCEPT ![i].mode = m]

\* _on_panel_advanced_run left at line 1637 (Save) or 1645 (no file chosen):
\* the configuration is stored and nothing is started.
advanced_run_save_only(i, m) ==
    /\ UserMay
    /\ HasPanel(i)
    /\ instances' = set_advanced_config(i, m)
    /\ opsLeft' = opsLeft - 1
    /\ sent' = NoDispatch
    /\ UNCHANGED <<active_timers, active_schedules, now, down, pc, pass, tickNow,
                   keys_to_remove, iter, rmKey, owed, timer_data,
                   workers, go_home_after_session, snapshot, shown, polling_active, bulk>>

\* _on_panel_advanced_run with mode "none": _start_none_mode.
start_none_mode(i, use_resume) ==
    /\ UserMay
    /\ HasPanel(i)
    /\ instances' = set_advanced_config(i, "none")
    /\ sent' = Dispatch(instances[i].key, StartKind(use_resume), "user")
    /\ opsLeft' = opsLeft - 1
    /\ UNCHANGED <<active_timers, active_schedules, now, down, pc, pass, tickNow,
                   keys_to_remove, iter, rmKey, owed, timer_data,
                   workers, go_home_after_session, snapshot, shown, polling_active, bulk>>

\* _on_panel_advanced_run with mode "timer": _start_timer_mode.
start_timer_mode(i, config) ==
    /\ UserMay
    /\ HasPanel(i)
    /\ instances' = set_advanced_config(i, "timer")
    /\ LET key == instances[i].key
       IN /\ active_timers' = Put(active_timers,
                                  [key |-> key, end_time |-> end_time(now, config),
                                   stopped |-> FALSE])
          /\ timer_data' = OrphanedTimer(key)
          /\ sent' = Dispatch(key, StartKind(config.use_resume), "timer_arm")
          /\ owed' = [owed EXCEPT ![key] = end_time(now, config)]
    /\ opsLeft' = opsLeft - 1
    /\ UNCHANGED <<active_schedules, now, down, pc, pass, tickNow, keys_to_remove,
                   iter, rmKey,
                   workers, go_home_after_session, snapshot, shown, polling_active, bulk>>

\* _on_panel_advanced_run with mode "schedule": _start_schedule_mode, up to
\* the status request of the _check_schedule_for_instance it calls.
start_schedule_mode(i, config) ==
    /\ UserMay
    /\ HasPanel(i)
    /\ instances' = set_advanced_config(i, "schedule")
    /\ LET key == instances[i].key
           schedule_data == [key |-> key, config |-> config,
                             last_action |-> NoAction, misses |-> 0,
                             failed |-> FALSE, started_here |-> FALSE]
       IN /\ active_schedules' = Put(active_schedules, schedule_data)
          /\ \E st \in get_status(key) :
               pass' = [Orphaned(key) EXCEPT !["ui"] =
                          [key |-> key,
                           use_resume |-> config.use_resume,
                           in_window |-> in_window(config, now),
                           last_action |-> NoAction,
                           status |-> st,
                           orphan |-> FALSE]]
    /\ pc' = [pc EXCEPT !["ui"] = "sched_decide"]
    /\ opsLeft' = opsLeft - 1
    /\ sent' = NoDispatch
    /\ UNCHANGED <<active_timers, now, down, tickNow, keys_to_remove, iter, rmKey,
                   owed, timer_data,
                   workers, go_home_after_session, snapshot, shown, polling_active, bulk>>

\* The text of an entry of AdvancedRunDialog: digits with their value, or
\* text that int() does not accept.
Number(n) == [digits |-> TRUE, value |-> n]
NotANumber == [digits |-> FALSE, value |-> 0]
FieldNames == {"timer_hours", "timer_minutes",
               "schedule_start_hour", "schedule_start_minute",
               "schedule_end_hour", "schedule_end_minute"}
\* The dialog as it opens for an instance without a stored configuration:
\* the defaults of AdvancedRunConfig.
DefaultForm ==
    [mode |-> "none", use_resume |-> FALSE,
     timer_hours |-> Number(0), timer_minutes |-> Number(30),
     schedule_start_hour |-> Number(8), schedule_start_minute |-> Number(0),
     schedule_end_hour |-> Number(22), schedule_end_minute |-> Number(0)]
\* The forms the user submits: a mode, the resume box, and one entry changed
\* to a value at or next to a limit of the validation.
FieldTexts == {Number(n) : n \in {0 - 1, 0, 23, 24, 59, 60}} \cup {NotANumber}
Forms ==
    { [[DefaultForm EXCEPT ![f] = v] EXCEPT !.mode = m, !.use_resume = r] :
        f \in FieldNames, v \in FieldTexts, m \in Modes, r \in BOOLEAN }

\* _build_and_validate_config: int() of the six entries.
int_raises(form) == \E f \in FieldNames : ~form[f].digits

\* Variants of config_error: hour 24 and minute 60 pass,
config_error_closed_range(form) ==
    \/ int_raises(form)
    \/ /\ form.mode = "timer"
       /\ \/ form.timer_hours.value < 0
          \/ form.timer_minutes.value < 0
          \/ form.timer_hours.value = 0 /\ form.timer_minutes.value = 0
    \/ /\ form.mode = "schedule"
       /\ \/ ~(0 <= form.schedule_start_hour.value /\ form.schedule_start_hour.value <= 24)
          \/ ~(0 <= form.schedule_start_minute.value /\ form.schedule_start_minute.value <= 60)
          \/ ~(0 <= form.schedule_end_hour.value /\ form.schedule_end_hour.value <= 24)
          \/ ~(0 <= form.schedule_end_minute.value /\ form.schedule_end_minute.value <= 60)

\* _build_and_validate_config: a ValueError is raised and None returned.
config_error(form) ==
    \/ int_raises(form)
    \/ /\ form.mode = "timer"
       /\ \/ form.timer_hours.value < 0
          \/ form.timer_minutes.value < 0
          \/ form.timer_hours.value = 0 /\ form.timer_minutes.value = 0
    \/ /\ form.mode = "schedule"
       /\ \/ ~(0 <= form.schedule_start_hour.value /\ form.schedule_start_hour.value <= 23)
          \/ ~(0 <= form.schedule_start_minute.value /\ form.schedule_start_minute.value <= 59)
          \/ ~(0 <= form.schedule_end_hour.value /\ form.schedule_end_hour.value <= 23)
          \/ ~(0 <= form.schedule_end_minute.value /\ form.schedule_end_minute.value <= 59)

\* The AdvancedRunConfig _build_and_validate_config returns for a form that
\* raises no error, as _start_timer_mode and _start_schedule_mode read it.
timer_config(form) ==
    [timer_hours |-> form.timer_hours.value,
     timer_minutes |-> form.timer_minutes.value,
     use_resume |-> form.use_resume]

schedule_config(form) ==
    [schedule_start_hour |-> form.schedule_start_hour.value,
     schedule_start_minute |-> form.schedule_start_minute.value,
     schedule_end_hour |-> form.schedule_end_hour.value,
     schedule_end_minute |-> form.schedule_end_minute.value,
     use_resume |-> form.use_resume]

\* _on_panel_advanced_run: the dialog is submitted with Start or with Save
\* (save_only).  A form that does not validate leaves dialog.result None,
\* and the handler returns at line 1627 when the dialog is closed.
on_panel_advanced_run(i, form, save_only) ==
    IF config_error(form)
    THEN /\ UserMay
         /\ HasPanel(i)
         /\ opsLeft' = opsLeft - 1
         /\ sent' = NoDispatch
         /\ UNCHANGED <<instances, active_timers, active_schedules, now, down, pc,
                        pass, tickNow, keys_to_remove, timer_data, workers,
                        go_home_after_session, iter, rmKey, owed, snapshot,
                        shown, polling_active, bulk>>
    ELSE IF save_only
    THEN advanced_run_save_only(i, form.mode)
    ELSE IF form.mode = "none"
    THEN start_none_mode(i, form.use_resume)
    ELSE IF form.mode = "timer"
    THEN start_timer_mode(i, timer_config(form))
    ELSE start_schedule_mode(i, schedule_config(form))

\* _resume_all: the button starts the do_resume_all thread.
resume_all ==
    /\ UserMay
    /\ bulk.at = "idle"
    /\ bulk' = [NoBulk EXCEPT !.at = "loop"]
    /\ opsLeft' = opsLeft - 1
    /\ sent' = NoDispatch
    /\ UNCHANGED <<instances, active_timers, active_schedules, now, down, pc, pass,
                   tickNow, keys_to_remove, timer_data, workers,
                   go_home_after_session, iter, rmKey, owed, snapshot, shown,
                   polling_active>>

\* What do_resume_all does with one enabled instance, by its status.
resume_all_outcome(st, has_incomplete_orders) ==
    IF ~reachable(st) THEN "failed"
    ELSE IF ~has_incomplete_orders THEN "skipped"
    ELSE IF is_executing(st) THEN "skipped"
    ELSE "resume"

\* The same in wrangler_master_flet.py.
flet_resume_all_outcome(st, has_incomplete_orders) ==
    IF ~reachable(st) \/ is_executing(st) THEN "skipped"
    ELSE IF ~has_incomplete_orders THEN "skipped"
    ELSE "resume"

\* One round of "for instance in self.instances" of do_resume_all: the list
\* iterator hands out self.instances[pos], or the loop ends.
do_resume_all_loop ==
    /\ bulk.at = "loop"
    /\ IF bulk.pos >= Len(instances)
       THEN /\ bulk' = [bulk EXCEPT !.at = "done"]
            /\ sent' = NoDispatch
       ELSE LET instance == instances[bulk.pos + 1]
            IN IF ~instance.enabled
               THEN /\ bulk' = [bulk EXCEPT !.pos = @ + 1]
                    /\ sent' = NoDispatch
               ELSE \E st \in get_status(instance.key),
                       has_incomplete_orders \in BOOLEAN, success \in BOOLEAN :
                      LET outcome == resume_all_outcome(st, has_incomplete_orders)
                      IN /\ outcome # "resume" => success
                         /\ bulk' =
                              [bulk EXCEPT
                                 !.pos = @ + 1,
                                 !.status = st,
                                 !.has_incomplete_orders = has_incomplete_orders,
                                 !.successes = IF outcome = "resume" /\ success
                                               THEN @ + 1 ELSE @,
                                 !.failures = IF \/ outcome = "failed"
                                                 \/ outcome = "resume" /\ ~success
                                              THEN @ + 1 ELSE @,
                                 !.skipped = IF outcome = "skipped" THEN @ + 1 ELSE @,
                                 !.counted = Append(@, instance.key),
                                 !.resumed = IF outcome = "resume"
                                             THEN Append(@, instance.key) ELSE @,
                                 !.flet_resumed =
                                    IF flet_resume_all_outcome(st, has_incomplete_orders)
                                         = "resume"
                                    THEN Append(@, instance.key) ELSE @]
                         /\ sent' = IF outcome = "resume"
                                    THEN Dispatch(instance.key, "resume", "resume_all")
                                    ELSE NoDispatch
    /\ UNCHANGED <<instances, active_timers, active_schedules, now, down, pc, pass,
                   tickNow, keys_to_remove, timer_data, workers,
                   go_home_after_session, iter, rmKey, opsLeft, owed, snapshot,
                   shown, polling_active>>

\* do_resume_all after its loop: the message with the counters, the delay
\* and _refresh_all_async, whose callbacks give the panels the statuses it
\* fetched; the thread ends.
do_resume_all_refresh ==
    /\ bulk.at = "done"
    /\ pc["ui"] = "idle"
    /\ shown' \in
         { f \in [Agents -> Statuses \cup {NotFetched}] :
             \A a \in Agents :
                IF Enabled(a) /\ update_panel_applies(a)
                THEN f[a] \in get_status(a)
                ELSE f[a] = shown[a] }
    /\ bulk' = [bulk EXCEPT !.at = "idle"]
    /\ sent' = NoDispatch
    /\ UNCHANGED <<instances, active_timers, active_schedules, now, down, pc, pass,
                   tickNow, keys_to_remove, timer_data, workers,
                   go_home_after_session, iter, rmKey, opsLeft, owed, snapshot,
                   polling_active>>

\* _on_close: the flag is cleared and the window destroyed; no handler of
\* the UI thread runs after it.
on_close ==
    /\ pc["ui"] = "idle"
    /\ polling_active' = FALSE
    /\ pc' = [pc EXCEPT !["ui"] = "closed"]
    /\ sent' = NoDispatch
    /\ UNCHANGED <<instances, active_timers, active_schedules, now, down, pass,
                   tickNow, keys_to_remove, timer_data, workers,
                   go_home_after_session, iter, rmKey, opsLeft, owed, snapshot,
                   shown, bulk>>

\* ------------------------------------------------------------------------
\* The environment
\* ------------------------------------------------------------------------
\* The wall clock.
tick_clock ==
    /\ now + ClockStep <= MaxNow
    /\ now' = now + ClockStep
    /\ sent' = NoDispatch
    /\ UNCHANGED <<instances, active_timers, active_schedules, down, pc, pass,
                   tickNow, keys_to_remove, iter, rmKey, opsLeft, owed, timer_data,
                   workers, go_home_after_session, snapshot, shown, polling_active, bulk>>

\* An agent's endpoint stops or starts answering.
agent_flips(a) ==
    /\ \E i \in DOMAIN instances : instances[i].key = a
    /\ down' = IF a \in down THEN down \ {a} ELSE down \cup {a}
    /\ sent' = NoDispatch
    /\ UNCHANGED <<instances, active_timers, active_schedules, now, pc, pass,
                   tickNow, keys_to_remove, iter, rmKey, opsLeft, owed, timer_data,
                   workers, go_home_after_session, snapshot, shown, polling_active, bulk>>

\* The user actions on instances of key k, and the steps of both threads.
Next ==
    \/ refresh_all_async
    \/ check_timers_begin
    \/ check_timers_loop
    \/ check_timers_body
    \/ check_timers_cleanup
    \/ check_schedules_loop
    \/ \E t \in Threads : check_schedule_decide(t)
    \/ poll_sleep
    \/ add_instance_dialog("a1")
    \/ \E i \in 1..MaxInstances : on_panel_remove(i)
    \/ on_panel_remove_instance
    \/ \E i \in 1..MaxInstances, m \in Modes : advanced_run_save_only(i, m)
    \/ \E i \in 1..MaxInstances, r \in BOOLEAN : start_none_mode(i, r)
    \/ \E i \in 1..MaxInstances, c \in TimerConfigs : start_timer_mode(i, c)
    \/ \E i \in 1..MaxInstances, c \in ScheduleConfigs : start_schedule_mode(i, c)
    \/ tick_clock
    \/ \E a \in Agents : agent_flips(a)
    \/ \E a \in Agents : do_stop_settled(a)

\* Spec: every instance of the registry has the key a1 (the list may hold it
\* twice).  SpecFleet: the second key can be added as well.
Spec == Init /\ [][Next]_vars

NextFleet == Next \/ add_instance_dialog("a2")

SpecFleet == Init /\ [][NextFleet]_vars

\* SpecSession: one registered agent whose go_home_after_session is loaded
\* set or clear and can be toggled; timer, schedule and manual activations,
\* the poll loop and the stop workers up to their go_home request.
InitSession ==
    /\ instances = <<Instance("a1", "none")>>
    /\ active_timers = << >>
    /\ active_schedules = << >>
    /\ now = 0
    /\ down = {}
    /\ pc = [t \in Threads |-> IF t = "poll" THEN "refresh" ELSE "idle"]
    /\ pass = [t \in Threads |-> NoPass]
    /\ tickNow = 0
    /\ keys_to_remove = << >>
    /\ timer_data = NoTimer
    /\ workers = [a \in Agents |-> NoWorkers]
    /\ \E b \in BOOLEAN :
         go_home_after_session = [a \in Agents |-> b /\ a = "a1"]
    /\ iter = NoIter
    /\ rmKey = NoInstance
    /\ opsLeft = MaxUserOps
    /\ sent = NoDispatch
    /\ owed = [a \in Agents |-> NoTime]
    /\ snapshot = [a \in Agents |-> NotFetched]
    /\ shown = [a \in Agents |-> NotFetched]
    /\ polling_active = TRUE
    /\ bulk = NoBulk

NextSession ==
    \/ refresh_all_async
    \/ check_timers_begin
    \/ check_timers_loop
    \/ check_timers_body
    \/ check_timers_cleanup
    \/ check_schedules_loop
    \/ \E t \in Threads : check_schedule_decide(t)
    \/ poll_sleep
    \/ on_go_home_toggle(1)
    \/ \E r \in BOOLEAN : start_none_mode(1, r)
    \/ \E c \in TimerConfigs : start_timer_mode(1, c)
    \/ \E c \in ScheduleConfigs : start_schedule_mode(1, c)
    \/ tick_clock
    \/ \E a \in Agents : do_stop_settled(a)
    \/ \E a \in Agents : do_stop_go_home(a)

SpecSession == InitSession /\ [][NextSession]_vars

\* SpecInputs: one registered agent, one activation of timer or schedule
\* mode with a configuration of WindowConfigs or DurationConfigs, made at
\* any of ProbeTimes; the activation's own schedule pass follows.
InitInputs ==
    /\ instances = <<Instance("a1", "none")>>
    /\ active_timers = << >>
    /\ active_schedules = << >>
    /\ now \in ProbeTimes
    /\ down = {}
    /\ pc = [t \in Threads |-> IF t = "poll" THEN "refresh" ELSE "idle"]
    /\ pass = [t \in Threads |-> NoPass]
    /\ tickNow = 0
    /\ keys_to_remove = << >>
    /\ timer_data = NoTimer
    /\ workers = [a \in Agents |-> NoWorkers]
    /\ go_home_after_session = [a \in Agents |-> FALSE]
    /\ iter = NoIter
    /\ rmKey = NoInstance
    /\ opsLeft = 1
    /\ sent = NoDispatch
    /\ owed = [a \in Agents |-> NoTime]
    /\ snapshot = [a \in Agents |-> NotFetched]
    /\ shown = [a \in Agents |-> NotFetched]
    /\ polling_active = TRUE
    /\ bulk = NoBulk

NextInputs ==
    \/ \E c \in WindowConfigs : start_schedule_mode(1, c)
    \/ check_schedule_decide("ui")
    \/ \E c \in DurationConfigs : start_timer_mode(1, c)

SpecInputs == InitInputs /\ [][NextInputs]_vars

\* SpecPair: two registered agents whose timers the user arms while the poll
\* loop runs.
InitPair ==
    /\ instances = <<Instance("a1", "none"), Instance("a2", "none")>>
    /\ active_timers = << >>
    /\ active_schedules = << >>
    /\ now = 0
    /\ down = {}
    /\ pc = [t \in Threads |-> IF t = "poll" THEN "refresh" ELSE "idle"]
    /\ pass = [t \in Threads |-> NoPass]
    /\ tickNow = 0
    /\ keys_to_remove = << >>
    /\ timer_data = NoTimer
    /\ workers = [a \in Agents |-> NoWorkers]
    /\ go_home_after_session = [a \in Agents |-> FALSE]
    /\ iter = NoIter
    /\ rmKey = NoInstance
    /\ opsLeft = MaxUserOps
    /\ sent = NoDispatch
    /\ owed = [a \in Agents |-> NoTime]
    /\ snapshot = [a \in Agents |-> NotFetched]
    /\ shown = [a \in Agents |-> NotFetched]
    /\ polling_active = TRUE
    /\ bulk = NoBulk

NextPair ==
    \/ refresh_all_async
    \/ check_timers_begin
    \/ check_timers_loop
    \/ check_timers_body
    \/ check_timers_cleanup
    \/ check_schedules_loop
    \/ poll_sleep
    \/ \E i \in 1..MaxInstances, c \in TimerConfigs : start_timer_mode(i, c)
    \/ tick_clock
    \/ \E a \in Agents : do_stop_settled(a)

SpecPair == InitPair /\ [][NextPair]_vars

\* SpecDaily: one registered agent in schedule mode with the window of
\* DailyConfigs; the poll loop, the clock and the agent's own changes of
\* status.
InitDaily == InitInputs /\ now = 0

NextDaily ==
    \/ refresh_all_async
    \/ check_timers_begin
    \/ check_timers_loop
    \/ check_timers_cleanup
    \/ check_schedules_loop
    \/ \E t \in Threads : check_schedule_decide(t)
    \/ poll_sleep
    \/ \E c \in DailyConfigs : start_schedule_mode(1, c)
    \/ tick_clock
    \/ \E a \in Agents : do_stop_settled(a)

SpecDaily == InitDaily /\ [][NextDaily]_vars

\* SpecPoll: two agents loaded from the configuration file, one of them
\* enabled and the other not; schedule activations, the poll loop and the agents' endpoints
\* failing and answering.
InitPoll ==
    /\ instances \in
         { <<[Instance("a1", "none") EXCEPT !.enabled = e],
             [Instance("a2", "none") EXCEPT !.enabled = ~e]>> : e \in BOOLEAN }
    /\ active_timers = << >>
    /\ active_schedules = << >>
    /\ now = 0
    /\ down = {}
    /\ pc = [t \in Threads |-> IF t = "poll" THEN "refresh" ELSE "idle"]
    /\ pass = [t \in Threads |-> NoPass]
    /\ tickNow = 0
    /\ keys_to_remove = << >>
    /\ timer_data = NoTimer
    /\ workers = [a \in Agents |-> NoWorkers]
    /\ go_home_after_session = [a \in Agents |-> FALSE]
    /\ iter = NoIter
    /\ rmKey = NoInstance
    /\ opsLeft = MaxUserOps
    /\ sent = NoDispatch
    /\ owed = [a \in Agents |-> NoTime]
    /\ snapshot = [a \in Agents |-> NotFetched]
    /\ shown = [a \in Agents |-> NotFetched]
    /\ polling_active = TRUE
    /\ bulk = NoBulk

NextPoll ==
    \/ refresh_all_async
    \/ check_timers_begin
    \/ check_timers_loop
    \/ check_timers_cleanup
    \/ check_schedules_loop
    \/ \E t \in Threads : check_schedule_decide(t)
    \/ poll_sleep
    \/ \E i \in 1..MaxInstances, c \in ScheduleConfigs : start_schedule_mode(i, c)
    \/ tick_clock
    \/ \E a \in Agents : agent_flips(a)
    \/ \E a \in Agents : do_stop_settled(a)

SpecPoll == InitPoll /\ [][NextPoll]_vars

\* SpecRemoval: SpecSession with the Remove button of the agent's panel.
NextRemoval ==
    \/ NextSession
    \/ on_panel_remove(1)
    \/ on_panel_remove_instance

SpecRemoval == InitSession /\ [][NextRemoval]_vars

\* SpecTwo: two registered agents; timer and schedule activations and
\* removals for either of them while the poll loop runs.
NextTwo ==
    \/ refresh_all_async
    \/ check_timers_begin
    \/ check_timers_loop
    \/ check_timers_body
    \/ check_timers_cleanup
    \/ check_schedules_loop
    \/ \E t \in Threads : check_schedule_decide(t)
    \/ poll_sleep
    \/ \E i \in 1..MaxInstances : on_panel_remove(i)
    \/ on_panel_remove_instance
    \/ \E i \in 1..MaxInstances, c \in TimerConfigs : start_timer_mode(i, c)
    \/ \E i \in 1..MaxInstances, c \in ScheduleConfigs : start_schedule_mode(i, c)
    \/ tick_clock
    \/ \E a \in Agents : do_stop_settled(a)

SpecTwo == InitPair /\ [][NextTwo]_vars

\* SpecBulk: two agents loaded from the configuration file, each enabled or
\* not; Resume All while the user removes and adds instances and the agents'
\* endpoints fail and answer.
InitBulk ==
    /\ instances \in
         { <<[Instance("a1", "none") EXCEPT !.enabled = e1],
             [Instance("a2", "none") EXCEPT !.enabled = e2]>> : e1, e2 \in BOOLEAN }
    /\ active_timers = << >>
    /\ active_schedules = << >>
    /\ now = 0
    /\ down = {}
    /\ pc = [t \in Threads |-> IF t = "poll" THEN "refresh" ELSE "idle"]
    /\ pass = [t \in Threads |-> NoPass]
    /\ tickNow = 0
    /\ keys_to_remove = << >>
    /\ timer_data = NoTimer
    /\ workers = [a \in Agents |-> NoWorkers]
    /\ go_home_after_session = [a \in Agents |-> FALSE]
    /\ iter = NoIter
    /\ rmKey = NoInstance
    /\ opsLeft = MaxUserOps
    /\ sent = NoDispatch
    /\ owed = [a \in Agents |-> NoTime]
    /\ snapshot = [a \in Agents |-> NotFetched]
    /\ shown = [a \in Agents |-> NotFetched]
    /\ polling_active = TRUE
    /\ bulk = NoBulk

NextBulk ==
    \/ resume_all
    \/ do_resume_all_loop
    \/ do_resume_all_refresh
    \/ \E i \in 1..MaxInstances : on_panel_remove(i)
    \/ on_panel_remove_instance
    \/ \E a \in Agents : add_instance_dialog(a)
    \/ \E a \in Agents : agent_flips(a)

SpecBulk == InitBulk /\ [][NextBulk]_vars

\* SpecClose: one registered agent, timer and schedule activations, the poll
\* loop, the stop workers, and the close of the window.  The threads are
\* scheduled fairly: the poll thread and the stop workers take their next
\* step when they have one.
PollStep ==
    \/ refresh_all_async
    \/ check_timers_begin
    \/ check_timers_loop
    \/ check_timers_body
    \/ check_timers_cleanup
    \/ check_schedules_loop
    \/ check_schedule_decide("poll")
    \/ poll_sleep

WorkerStep == \E a \in Agents : do_stop_settled(a) \/ do_stop_go_home(a)

NextClose ==
    \/ PollStep
    \/ WorkerStep
    \/ check_schedule_decide("ui")
    \/ \E c \in TimerConfigs : start_timer_mode(1, c)
    \/ \E c \in ScheduleConfigs : start_schedule_mode(1, c)
    \/ tick_clock
    \/ on_close

SpecClose ==
    InitSession /\ [][NextClose]_vars /\ WF_vars(PollStep) /\ WF_vars(WorkerStep)

\* SpecDialog: one registered agent; the Advanced Run dialog is submitted
\* with one of Forms as the last user action, after an activation of timer
\* or schedule mode or on the agent as it was loaded.
NextDialog ==
    \/ \E c \in TimerConfigs : start_timer_mode(1, c)
    \/ \E c \in ScheduleConfigs : start_schedule_mode(1, c)
    \/ check_schedule_decide("ui")
    \/ /\ opsLeft = 1
       /\ \E f \in Forms, save_only \in BOOLEAN : on_panel_advanced_run(1, f, save_only)

SpecDialog == InitSession /\ [][NextDialog]_vars

\* SpecPanels: the poll loop's refresh, its callbacks on the UI thread, and
\* the Add and Remove buttons; the agents' endpoints fail and answer.
InitPanels == InitPair

NextPanels ==
    \/ refresh_all_async
    \/ check_timers_begin
    \/ check_timers_loop
    \/ check_timers_cleanup
    \/ check_schedules_loop
    \/ poll_sleep
    \/ \E a \in Agents : update_panel(a)
    \/ \E a \in Agents : add_instance_dialog(a)
    \/ \E i \in 1..MaxInstances : on_panel_remove(i)
    \/ on_panel_remove_instance
    \/ \E a \in Agents : agent_flips(a)

SpecPanels == InitPanels /\ [][NextPanels]_vars

\* ------------------------------------------------------------------------
\* Vocabulary of the claims
\* ------------------------------------------------------------------------
RegistryKeys == {instances[i].key : i \in DOMAIN instances}
\* Thread t takes the decision step of its schedule pass.
Decides(t) == pc[t] = "sched_decide" /\ pc'[t] # "sched_decide"
\* The schedule entry a pass of thread t still shares with active_schedules.
Shared(t) == ~pass[t].orphan /\ Has(active_schedules, pass[t].key)
IsStart(d) == d.kind \in {"run", "resume"}
IsStop(d) == d.kind = "stop"
ByAutomation(d) == d.src \in {"timer", "schedule"}
LastActions(d) == [i \in DOMAIN d |-> d[i].last_action]
\* _check_timers has run to its end in the current round of the poll loop.
TimerPassDone == pc["poll"] \in {"schedules", "sched_decide", "sleep"}

\* ------------------------------------------------------------------------
\* C1  Every armed timer gets exactly one expiry stop: the timer dispatches a
\* stop only for a timer that is armed and has not fired, and once a timer
\* pass with now >= end_time has run to its end no armed timer of that
\* end_time is left without its stop.
\* ------------------------------------------------------------------------
C1_ExactlyOneStop ==
    [][ /\ \A a \in Agents :
             sent' = Dispatch(a, "stop", "timer") => owed[a] # NoTime
        /\ \A a \in Agents :
             (TimerPassDone' /\ owed'[a] # NoTime) => tickNow' < owed'[a] ]_vars

\* ------------------------------------------------------------------------
\* C2  A schedule pass that finds the agent in the window, reads a
\* last_action other than "started" and gets a status that is not executing
\* dispatches exactly one start, resume or run as use_resume says, and
\* records last_action = "started".
\* ------------------------------------------------------------------------
C2_StartInWindow ==
    [][ \A t \in Threads :
          ( /\ Decides(t)
            /\ pass[t].in_window
            /\ pass[t].last_action # "started"
            /\ ~is_executing(pass[t].status) )
          => /\ sent' = Dispatch(pass[t].key,
                                 IF IF Shared(t)
                                    THEN Get(active_schedules, pass[t].key).config.use_resume
                                    ELSE pass[t].use_resume
                                 THEN "resume" ELSE "run",
                                 "schedule")
             /\ Shared(t) => Get(active_schedules', pass[t].key).last_action = "started"
      ]_vars

C2_Witness ==
    \E a \in Agents :
        /\ sent = Dispatch(a, "resume", "schedule")
        /\ Has(active_schedules, a)
        /\ Get(active_schedules, a).last_action = "started"
        /\ Get(active_schedules, a).config.use_resume
        /\ pc["poll"] = "schedules"

\* ------------------------------------------------------------------------
\* C3  A schedule pass that finds the agent out of the window, reads a
\* last_action other than "stopped" and gets a status that is executing
\* dispatches exactly one stop and records last_action = "stopped"; a pass
\* evaluated in-window never dispatches a stop and a pass evaluated
\* out-of-window never a start.
\* ------------------------------------------------------------------------
C3_StopOutOfWindow ==
    [][ \A t \in Threads :
          /\ ( /\ Decides(t)
               /\ ~pass[t].in_window
               /\ pass[t].last_action # "stopped"
               /\ is_executing(pass[t].status) )
             => /\ sent' = Dispatch(pass[t].key, "stop", "schedule")
                /\ Shared(t) => Get(active_schedules', pass[t].key).last_action = "stopped"
          /\ (Decides(t) /\ pass[t].in_window) => ~IsStop(sent')
          /\ (Decides(t) /\ ~pass[t].in_window) => ~IsStart(sent')
      ]_vars

C3_Witness ==
    \E a \in Agents :
        /\ sent = Dispatch(a, "stop", "schedule")
        /\ Has(active_schedules, a)
        /\ Get(active_schedules, a).last_action = "stopped"
        /\ ~in_window(Get(active_schedules, a).config, now)

\* ------------------------------------------------------------------------
\* C4  With last_action = "started", a pass that finds the agent in the
\* window and executing dispatches no start and leaves last_action as it is,
\* however many such passes follow one another.
\* ------------------------------------------------------------------------
C4_StartIdempotent ==
    [][ \A t \in Threads :
          ( /\ Decides(t)
            /\ pass[t].in_window
            /\ is_executing(pass[t].status)
            /\ \/ pass[t].last_action = "started"
               \/ Shared(t) /\ Get(active_schedules, pass[t].key).last_action = "started" )
          => /\ sent' = NoDispatch
             /\ LastActions(active_schedules') = LastActions(active_schedules)
      ]_vars

\* A pass of the poll loop is deciding for a started schedule whose agent is
\* in the window and executing.
C4_Witness ==
    /\ pc["poll"] = "sched_decide"
    /\ pass["poll"].in_window
    /\ is_executing(pass["poll"].status)
    /\ pass["poll"].last_action = "started"
    /\ Shared("poll")
    /\ Get(active_schedules, pass["poll"].key).last_action = "started"

\* ------------------------------------------------------------------------
\* C5  A schedule pass whose status request found the agent unreachable
\* dispatches nothing and leaves every last_action unchanged, inside and
\* outside the window.
\* ------------------------------------------------------------------------
C5_UnreachableSkipped ==
    [][ \A t \in Threads :
          (Decides(t) /\ ~reachable(pass[t].status))
          => /\ sent' = NoDispatch
             /\ LastActions(active_schedules') = LastActions(active_schedules)
      ]_vars

\* ------------------------------------------------------------------------
\* C6  An agent unreachable for UnreachableTicks consecutive in-window
\* passes gets no start during those passes, and the first pass that then
\* finds it reachable, not executing and in the window dispatches the start.
\* ------------------------------------------------------------------------
C6_StartOnFirstReachable ==
    [][ \A t \in Threads :
          /\ (Decides(t) /\ pass[t].in_window /\ ~reachable(pass[t].status))
             => ~IsStart(sent')
          /\ ( /\ Decides(t)
               /\ Shared(t)
               /\ Get(active_schedules, pass[t].key).misses = UnreachableTicks
               /\ pass[t].in_window
               /\ pass[t].status = "idle" )
             => IsStart(sent')
      ]_vars

\* ------------------------------------------------------------------------
\* C7  A timer is not fired while its agent is unreachable: the step of
\* _check_timers dispatches no stop to an agent that does not answer and
\* leaves the stopped flag of its timer as it is.
\* ------------------------------------------------------------------------
C7_UnreachableTimerKept ==
    [][ \A a \in down :
          /\ sent' # Dispatch(a, "stop", "timer")
          /\ \A i \in DOMAIN active_timers :
               ( /\ active_timers[i].key = a
                 /\ active_timers'[i].key = a
                 /\ ~active_timers[i].stopped )
               => ~active_timers'[i].stopped
      ]_vars

\* ------------------------------------------------------------------------
\* C8  No start or stop of the timer or of the schedule is dispatched to an
\* agent that is no longer in the registry.
\* ------------------------------------------------------------------------
C8_NoDispatchAfterRemoval ==
    ByAutomation(sent) => sent.agent \in RegistryKeys

\* ------------------------------------------------------------------------
\* C9  Every key of active_timers and of active_schedules is the key of an
\* instance of the registry, and a running schedule pass never holds the
\* schedule of an agent that has left the registry (the removal is one step
\* for it).
\* ------------------------------------------------------------------------
C9_KeysInRegistry ==
    /\ Keys(active_timers) \subseteq RegistryKeys
    /\ Keys(active_schedules) \subseteq RegistryKeys
    /\ \A t \in Threads : pc[t] = "sched_decide" => pass[t].key \in RegistryKeys

\* ------------------------------------------------------------------------
\* C10  Two schedule passes for one agent are never in progress together
\* (the pass of the poll loop and the pass of the activation), and no pass
\* dispatches a start for a schedule already "started" or a stop for one
\* already "stopped".
\* ------------------------------------------------------------------------
C10_NoConcurrentPasses ==
    [][ /\ ~( /\ pc'["poll"] = "sched_decide"
              /\ pc'["ui"] = "sched_decide"
              /\ pass'["poll"].key = pass'["ui"].key )
        /\ \A t \in Threads :
             (Decides(t) /\ Shared(t))
             => /\ IsStart(sent')
                   => Get(active_schedules, pass[t].key).last_action # "started"
                /\ IsStop(sent')
                   => Get(active_schedules, pass[t].key).last_action # "stopped"
      ]_vars

\* ------------------------------------------------------------------------
\* C11  The user's changes of the registry and of the two maps are
\* serialized with the tick: while the tick iterates over a map its size is
\* the size the iteration began with, every key the tick has queued for
\* deletion is still in active_timers, and so the poll thread never ends on
\* a RuntimeError or a KeyError.
\* ------------------------------------------------------------------------
C11_Serialized ==
    /\ pc["poll"] = "timers" => ~IterRaises(active_timers, iter)
    /\ pc["poll"] \in {"schedules", "sched_decide"}
         => ~IterRaises(active_schedules, iter)
    /\ pc["poll"] = "cleanup"
         => \A n \in DOMAIN keys_to_remove : Has(active_timers, keys_to_remove[n])
    /\ pc["poll"] # "crashed"

\* ------------------------------------------------------------------------
\* C20  Activating timer mode or manual (none) mode for an agent removes the
\* agent's schedule from active_schedules.
\* ------------------------------------------------------------------------
C20_ScheduleDestroyedOnModeChange ==
    [][ \A i \in 1..MaxInstances :
          ( \/ \E c \in TimerConfigs : start_timer_mode(i, c)
            \/ \E r \in BOOLEAN : start_none_mode(i, r) )
          => ~Has(active_schedules', instances[i].key)
      ]_vars

\* ------------------------------------------------------------------------
\* C12  For a same-day window (start <= end, in minutes of the day) the
\* in_window a schedule pass computes is TRUE exactly when
\* start <= current minute < end: the start minute is inside, the end
\* minute outside.
\* ------------------------------------------------------------------------
MinuteOfDay(t) == (t \div 60) % 1440
StartOf(c) == c.schedule_start_hour * 60 + c.schedule_start_minute
EndOf(c) == c.schedule_end_hour * 60 + c.schedule_end_minute
\* Thread t begins a schedule pass: it reads the schedule and the clock.
Reads(t) == pc[t] # "sched_decide" /\ pc'[t] = "sched_decide"
ConfigRead(t) == Get(active_schedules', pass'[t].key).config

C12_SameDayWindow ==
    [][ \A t \in Threads :
          (Reads(t) /\ StartOf(ConfigRead(t)) <= EndOf(ConfigRead(t)))
          => ( pass'[t].in_window
               <=> ( /\ StartOf(ConfigRead(t)) <= MinuteOfDay(now)
                     /\ MinuteOfDay(now) < EndOf(ConfigRead(t)) ) )
      ]_vars

\* The pass of an 08:00-22:00 schedule read at 21:59:59 is in the window.
C12_Witness ==
    /\ pc["ui"] = "sched_decide"
    /\ now = 21 * 3600 + 59 * 60 + 59
    /\ Has(active_schedules, pass["ui"].key)
    /\ Get(active_schedules, pass["ui"].key).config.schedule_start_hour = 8
    /\ Get(active_schedules, pass["ui"].key).config.schedule_end_hour = 22
    /\ pass["ui"].in_window

\* ------------------------------------------------------------------------
\* C13  For an overnight window (start > end) the in_window a schedule pass
\* computes is TRUE exactly when current minute >= start or
\* current minute < end, at every minute of the day.
\* ------------------------------------------------------------------------
C13_OvernightWindow ==
    [][ \A t \in Threads :
          (Reads(t) /\ StartOf(ConfigRead(t)) > EndOf(ConfigRead(t)))
          => ( pass'[t].in_window
               <=> ( \/ MinuteOfDay(now) >= StartOf(ConfigRead(t))
                     \/ MinuteOfDay(now) < EndOf(ConfigRead(t)) ) )
      ]_vars

\* The pass of a 22:00-06:00 schedule read at 05:59:59 is in the window.
C13_Witness ==
    /\ pc["ui"] = "sched_decide"
    /\ now = 5 * 3600 + 59 * 60 + 59
    /\ Has(active_schedules, pass["ui"].key)
    /\ Get(active_schedules, pass["ui"].key).config.schedule_start_hour = 22
    /\ Get(active_schedules, pass["ui"].key).config.schedule_end_hour = 6
    /\ pass["ui"].in_window

\* ------------------------------------------------------------------------
\* C14  Activating timer mode stores a timer with
\* end_time = now + hours * 3600 + minutes * 60 and stopped = FALSE under
\* the agent's key and dispatches exactly one start: resume when use_resume
\* is set, run otherwise.
\* ------------------------------------------------------------------------
C14_TimerArmed ==
    [][ \A i \in 1..MaxInstances, c \in TimerConfigs \cup DurationConfigs :
          start_timer_mode(i, c)
          => /\ Has(active_timers', instances[i].key)
             /\ Get(active_timers', instances[i].key).end_time
                  = now + c.timer_hours * 3600 + c.timer_minutes * 60
             /\ ~Get(active_timers', instances[i].key).stopped
             /\ sent' = Dispatch(instances[i].key,
                                 IF c.use_resume THEN "resume" ELSE "run",
                                 "timer_arm")
      ]_vars

\* A 1h30m timer armed with use_resume has just been stored.
C14_Witness ==
    /\ Has(active_timers, "a1")
    /\ Get(active_timers, "a1").end_time = now + 5400
    /\ ~Get(active_timers, "a1").stopped
    /\ sent = Dispatch("a1", "resume", "timer_arm")

\* ------------------------------------------------------------------------
\* C15  Activating timer mode for an agent that has an armed timer leaves
\* exactly one timer for the agent, with the new end_time; the activation
\* dispatches no stop, and no later stop of the timer comes before the
\* end_time armed last.
\* ------------------------------------------------------------------------
C15_RearmReplaces ==
    [][ /\ \A i \in 1..MaxInstances, c \in TimerConfigs :
             start_timer_mode(i, c)
             => /\ Cardinality({n \in Live(active_timers') :
                                  active_timers'[n].key = instances[i].key}) = 1
                /\ Get(active_timers', instances[i].key).end_time
                     = end_time(now, c)
                /\ ~IsStop(sent')
        /\ \A a \in Agents :
             (sent' = Dispatch(a, "stop", "timer") /\ owed[a] # NoTime)
             => owed[a] <= tickNow
      ]_vars

\* ------------------------------------------------------------------------
\* C16  The timer dispatches a stop only on a tick whose now is at or after
\* the end_time of the timer the agent has at that moment.
\* ------------------------------------------------------------------------
C16_NoEarlyStop ==
    [][ \A a \in Agents :
          (sent' = Dispatch(a, "stop", "timer") /\ Has(active_timers, a))
          => Get(active_timers, a).end_time <= tickNow
      ]_vars

\* ------------------------------------------------------------------------
\* C17  A stop dispatched by a timer expiry or by a schedule window end is
\* followed by a go-home exactly when the agent's go_home_after_session is
\* set: the stop starts one worker, the worker goes on to a go-home if and
\* only if it finds the flag set after the settle delay, and then sends
\* exactly one go-home.
\* ------------------------------------------------------------------------
AutomationStop(d, a) == d.agent = a /\ d.kind = "stop" /\ ByAutomation(d)

C17_GoHomeIffFlag ==
    [][ \A a \in Agents :
          /\ AutomationStop(sent', a)
               => workers'[a].settle = workers[a].settle + 1
          /\ workers'[a].settle < workers[a].settle
               => workers'[a].home
                    = workers[a].home + (IF go_home_after_session[a] THEN 1 ELSE 0)
          /\ workers'[a].home < workers[a].home
               => /\ workers'[a].home = workers[a].home - 1
                  /\ sent' = Dispatch(a, "go_home", "do_stop")
      ]_vars

\* The worker of a stop has sent its go-home to an agent whose flag is set.
C17_Witness ==
    /\ sent = Dispatch("a1", "go_home", "do_stop")
    /\ go_home_after_session["a1"]

\* ------------------------------------------------------------------------
\* C18  While a stop worker of an agent is between its stop and the go-home
\* it is going to send, no run or resume is dispatched to that agent.
\* ------------------------------------------------------------------------
C18_NoStartWhileSettling ==
    [][ \A a \in Agents :
          ( \/ workers[a].home > 0
            \/ workers[a].settle > 0 /\ go_home_after_session[a] )
          => ~(IsStart(sent') /\ sent'.agent = a)
      ]_vars

\* ------------------------------------------------------------------------
\* C19  A go-home request is only ever sent by a stop worker, after that
\* worker's stop request to the same agent: workers begin with a dispatched
\* stop, reach the go-home only through the test after the stop, and nothing
\* else sends a go-home.
\* ------------------------------------------------------------------------
C19_GoHomeAfterStop ==
    [][ \A a \in Agents :
          /\ (sent'.kind = "go_home" /\ sent'.agent = a)
               => /\ sent'.src = "do_stop"
                  /\ workers[a].home > 0
                  /\ workers'[a].home = workers[a].home - 1
          /\ workers'[a].home > workers[a].home
               => workers'[a].settle = workers[a].settle - 1
          /\ workers'[a].settle > workers[a].settle
               => AutomationStop(sent', a)
      ]_vars

\* A go-home has been sent and no stop worker of the agent is left.
C19_Witness ==
    /\ sent.kind = "go_home"
    /\ sent.agent = "a1"
    /\ workers["a1"] = NoWorkers


\* ------------------------------------------------------------------------
\* C21  A timer is destroyed once its expiry stop has been dispatched: when
\* the tick that fired it is over, active_timers holds no entry with
\* stopped = TRUE, so none persists from one tick to the next.
\* ------------------------------------------------------------------------
C21_FiredTimerDestroyed ==
    pc["poll"] \notin {"timers", "timer_test", "cleanup"}
    => \A i \in Live(active_timers) : ~active_timers[i].stopped


\* ------------------------------------------------------------------------
\* C22  The last_action of a schedule changes only to "started" in a step
\* that dispatches a start to its agent, to "stopped" in a step that
\* dispatches a stop to it, and to None in the activation of schedule mode;
\* a pass that dispatches nothing leaves every last_action as it is.
\* ------------------------------------------------------------------------
C22_LastActionChanges ==
    [][ /\ \A i \in Live(active_schedules) :
             ( /\ active_schedules'[i].key = active_schedules[i].key
               /\ active_schedules'[i].last_action # active_schedules[i].last_action )
             => \/ /\ active_schedules'[i].last_action = "started"
                   /\ IsStart(sent')
                   /\ sent'.agent = active_schedules[i].key
                   /\ sent'.src = "schedule"
                \/ /\ active_schedules'[i].last_action = "stopped"
                   /\ sent' = Dispatch(active_schedules[i].key, "stop", "schedule")
                \/ /\ active_schedules'[i].last_action = NoAction
                   /\ Reads("ui")
                   /\ pass'["ui"].key = active_schedules[i].key
        /\ \A t \in Threads :
             (Decides(t) /\ sent' = NoDispatch)
             => LastActions(active_schedules') = LastActions(active_schedules)
      ]_vars

\* The poll loop's passes have found a started schedule's agent unreachable
\* in the window more than once; the last of them dispatched nothing.
C22_Witness ==
    /\ pc["poll"] = "schedules"
    /\ iter.pos > 0
    /\ sent = NoDispatch
    /\ Has(active_schedules, "a1")
    /\ Get(active_schedules, "a1").last_action = "started"
    /\ Get(active_schedules, "a1").misses >= 2


\* ------------------------------------------------------------------------
\* C23  Saving a schedule configuration without starting it (Save), for an
\* agent that has a schedule in active_schedules, resets the last_action of
\* that schedule to None.
\* ------------------------------------------------------------------------
C23_ResaveResets ==
    [][ \A i \in 1..MaxInstances :
          ( /\ advanced_run_save_only(i, "schedule")
            /\ Has(active_schedules, instances[i].key) )
          => /\ Has(active_schedules', instances[i].key)
             /\ Get(active_schedules', instances[i].key).last_action = NoAction
      ]_vars

\* ------------------------------------------------------------------------
\* C24  An agent whose configured mode is manual ("none") gets no request
\* from the timer, the schedule or a stop worker: every stop, start or
\* go-home of the automation goes to an agent that has an instance in timer
\* or schedule mode.
\* ------------------------------------------------------------------------
C24_ManualNoAutomation ==
    [][ \A a \in RegistryKeys :
          ( /\ sent'.agent = a
            /\ ByAutomation(sent') \/ sent'.kind = "go_home" )
          => \E i \in DOMAIN instances :
               instances[i].key = a /\ instances[i].mode # "none"
      ]_vars


\* ------------------------------------------------------------------------
\* C25  A schedule dispatch that failed is made again by a later pass: when
\* the last request of a schedule could not reach its agent, a pass that
\* finds the agent reachable and still in the window and not executing
\* (after a failed start), or out of the window and executing (after a
\* failed stop), dispatches that action again.
\* ------------------------------------------------------------------------
C25_FailedDispatchRetried ==
    [][ \A t \in Threads :
          ( /\ Decides(t)
            /\ Shared(t)
            /\ Get(active_schedules, pass[t].key).failed
            /\ reachable(pass[t].status) )
          => /\ ( /\ pass[t].in_window
                  /\ ~is_executing(pass[t].status)
                  /\ Get(active_schedules, pass[t].key).last_action = "started" )
                => IsStart(sent')
             /\ ( /\ ~pass[t].in_window
                  /\ is_executing(pass[t].status)
                  /\ Get(active_schedules, pass[t].key).last_action = "stopped" )
                => IsStop(sent')
      ]_vars


\* ------------------------------------------------------------------------
\* C26  The schedule misses no occurrence of its window: a pass that finds
\* the agent reachable, not executing and in the window dispatches a start
\* unless a start of the schedule has already been dispatched in this
\* occurrence (since the schedule's last pass outside the window), also
\* when no stop was dispatched since the start of the occurrence before.
\* ------------------------------------------------------------------------
C26_NoMissedWindow ==
    [][ \A t \in Threads :
          ( /\ Decides(t)
            /\ Shared(t)
            /\ pass[t].in_window
            /\ pass[t].status = "idle" )
          => \/ IsStart(sent')
             \/ Get(active_schedules, pass[t].key).started_here
      ]_vars


\* ------------------------------------------------------------------------
\* C27  Every request the automation dispatches is followed by a status
\* request of the same worker: the worker of a stop has its settle delay and
\* status request ahead, and the worker that sends a go-home is still
\* running afterwards, with its status request ahead.
\* ------------------------------------------------------------------------
Running(w, a) == w[a].settle + w[a].home

C27_RefetchAfterDispatch ==
    [][ \A a \in Agents :
          /\ AutomationStop(sent', a) => workers'[a].settle > 0
          /\ (sent'.kind = "go_home" /\ sent'.agent = a)
               => Running(workers', a) >= Running(workers, a)
      ]_vars


C29_DecidesOnSnapshot ==
    [][ Decides("poll") => pass["poll"].status = snapshot[pass["poll"].key] ]_vars


\* ------------------------------------------------------------------------
\* C30  Removing an agent cancels the pending follow-up of its stop: no
\* go-home request is sent to an agent that is no longer in the registry.
\* ------------------------------------------------------------------------
C30_NoGoHomeAfterRemoval ==
    [][ \A a \in Agents :
          (sent'.kind = "go_home" /\ sent'.agent = a) => a \in RegistryKeys
      ]_vars


\* ------------------------------------------------------------------------
\* C31  A status fetched for an agent that is removed before the result is
\* applied is discarded: a panel update only ever changes the displayed
\* status of an agent that is in the registry, and no status is displayed for
\* an agent that is not.
\* ------------------------------------------------------------------------
C31_RemovedResultDiscarded ==
    [][ \A a \in Agents :
          /\ (shown'[a] # shown[a] /\ shown'[a] # NotFetched) => a \in RegistryKeys
          /\ shown'[a] # NotFetched => a \in RegistryKeys'
      ]_vars

\* The round's status of a1 is waiting for the UI thread, a1 has been removed
\* since, and the status of a2 fetched in the same round is displayed.
C31_Witness ==
    /\ pc["ui"] = "idle"
    /\ snapshot["a1"] # NotFetched
    /\ "a1" \notin RegistryKeys
    /\ shown["a1"] = NotFetched
    /\ shown["a2"] # NotFetched
    /\ shown["a2"] = snapshot["a2"]


\* ------------------------------------------------------------------------
\* C32  No error stops the periodic tick: while the application is open the
\* poll thread is in its loop, whatever the agents answer and whatever the
\* user adds, removes or activates meanwhile; it never ends on an exception.
\* ------------------------------------------------------------------------
C32_TickNeverStops ==
    polling_active => pc["poll"] \notin {"crashed", "done"}


\* ------------------------------------------------------------------------
\* C33  No two instances of the registry have the same host:port key, so a
\* key of active_timers or active_schedules denotes one instance.
\* ------------------------------------------------------------------------
C33_UniqueIdentity ==
    \A i, j \in DOMAIN instances :
        instances[i].key = instances[j].key => i = j


\* ------------------------------------------------------------------------
\* C34  An invalid configuration is rejected when the dialog is submitted:
\* a timer form with hours = 0 and minutes = 0 or with a negative value, and
\* a schedule form with an hour outside 0..23 or a minute outside 0..59,
\* stores no configuration, leaves active_timers and active_schedules as
\* they are and dispatches nothing; so every timer ends after the moment it
\* was armed and every schedule has its hours in 0..23 and its minutes in
\* 0..59.
\* ------------------------------------------------------------------------
InvalidTimer(f) ==
    /\ f.mode = "timer"
    /\ f.timer_hours.digits
    /\ f.timer_minutes.digits
    /\ \/ f.timer_hours.value = 0 /\ f.timer_minutes.value = 0
       \/ f.timer_hours.value < 0
       \/ f.timer_minutes.value < 0
InvalidSchedule(f) ==
    /\ f.mode = "schedule"
    /\ \/ \E h \in {"schedule_start_hour", "schedule_end_hour"} :
             f[h].digits /\ f[h].value \notin 0..23
       \/ \E m \in {"schedule_start_minute", "schedule_end_minute"} :
             f[m].digits /\ f[m].value \notin 0..59

C34_InvalidConfigRejected ==
    [][ opsLeft' # opsLeft
        => /\ \A f \in Forms, save_only \in BOOLEAN :
                ( /\ InvalidTimer(f) \/ InvalidSchedule(f)
                  /\ on_panel_advanced_run(1, f, save_only) )
                => /\ instances' = instances
                   /\ active_timers' = active_timers
                   /\ active_schedules' = active_schedules
                   /\ pc' = pc
                   /\ sent' = NoDispatch
           /\ \A n \in Live(active_timers') :
                (n \notin DOMAIN active_timers \/ active_timers'[n] # active_timers[n])
                => active_timers'[n].end_time > now
           /\ \A n \in Live(active_schedules') :
                LET c == active_schedules'[n].config
                IN /\ c.schedule_start_hour \in 0..23
                   /\ c.schedule_end_hour \in 0..23
                   /\ c.schedule_start_minute \in 0..59
                   /\ c.schedule_end_minute \in 0..59
      ]_vars

\* A form has been submitted and rejected for an agent that has an armed
\* timer: the timer is as it was armed and the instance is in timer mode.
C34_Witness ==
    /\ opsLeft = 0
    /\ sent = NoDispatch
    /\ pc["ui"] = "idle"
    /\ instances[1].mode = "timer"
    /\ Has(active_timers, "a1")
    /\ Get(active_timers, "a1").end_time = 60
    /\ active_schedules = << >>


\* ------------------------------------------------------------------------
\* C35  The automation of one agent is independent of the other agents: a
\* step changes the timer, the schedule (its last_action included) and
\* dispatches a request for at most one agent, and an activation, a removal
\* or a tick decision for an agent leaves the timer and the schedule of
\* every other agent as they are and dispatches nothing to another agent.
\* ------------------------------------------------------------------------
Entry(d, a) == IF Has(d, a) THEN {Get(d, a)} ELSE {}
Touched(a) ==
    \/ Entry(active_timers', a) # Entry(active_timers, a)
    \/ Entry(active_schedules', a) # Entry(active_schedules, a)
    \/ sent'.agent = a
OnlyTouches(a) == \A b \in Agents \ {a} : ~Touched(b)

C35_AgentsIndependent ==
    [][ /\ \A a, b \in Agents : (Touched(a) /\ Touched(b)) => a = b
        /\ \A i \in DOMAIN instances :
             ( \/ \E c \in TimerConfigs : start_timer_mode(i, c)
               \/ \E c \in ScheduleConfigs : start_schedule_mode(i, c)
               \/ on_panel_remove(i) )
             => OnlyTouches(instances[i].key)
        /\ \A t \in Threads : Decides(t) => OnlyTouches(pass[t].key)
        /\ (pc["poll"] = "timer_test" /\ pc'["poll"] # "timer_test")
             => OnlyTouches(timer_data.key)
      ]_vars

\* A pass of the poll loop has dispatched the start of a1's schedule while a2
\* has an armed timer.
C35_Witness ==
    /\ IsStart(sent)
    /\ sent.agent = "a1"
    /\ sent.src = "schedule"
    /\ pc["poll"] = "schedules"
    /\ Get(active_schedules, "a1").last_action = "started"
    /\ Has(active_timers, "a2")
    /\ ~Get(active_timers, "a2").stopped


\* ------------------------------------------------------------------------
\* C36  A timer armed again is not deleted by the cleanup of the expiry of
\* the timer it replaced: a timer that has not fired leaves active_timers
\* only when its agent is removed.
\* ------------------------------------------------------------------------
C36_RearmedTimerKept ==
    [][ \A a \in Agents :
          ( /\ Has(active_timers, a)
            /\ ~Get(active_timers, a).stopped
            /\ ~Has(active_timers', a) )
          => (pc'["ui"] = "removing" /\ rmKey'.key = a)
      ]_vars


\* ------------------------------------------------------------------------
\* C37  An agent has at most one kind of automation at a time: it never has
\* an armed timer in active_timers and a schedule in active_schedules
\* together.
\* ------------------------------------------------------------------------
C37_OneAutomationKind ==
    \A a \in Agents :
        ~( /\ Has(active_timers, a)
           /\ ~Get(active_timers, a).stopped
           /\ Has(active_schedules, a) )


\* ------------------------------------------------------------------------
\* C38  A schedule whose start time equals its end time has an empty
\* window: the in_window its pass computes is FALSE at every minute of the
\* day, and its pass dispatches no start.
\* ------------------------------------------------------------------------
C38_EmptyWindow ==
    [][ \A t \in Threads :
          /\ (Reads(t) /\ StartOf(ConfigRead(t)) = EndOf(ConfigRead(t)))
               => ~pass'[t].in_window
          /\ ( /\ Decides(t)
               /\ Shared(t)
               /\ StartOf(Get(active_schedules, pass[t].key).config)
                    = EndOf(Get(active_schedules, pass[t].key).config) )
             => ~IsStart(sent')
      ]_vars

\* The pass of an 08:00-08:00 schedule read at 08:00:00 is outside the
\* window.
C38_Witness ==
    /\ pc["ui"] = "sched_decide"
    /\ now = 8 * 3600
    /\ Has(active_schedules, pass["ui"].key)
    /\ Get(active_schedules, pass["ui"].key).config.schedule_start_hour = 8
    /\ Get(active_schedules, pass["ui"].key).config.schedule_end_hour = 8
    /\ ~pass["ui"].in_window


\* ------------------------------------------------------------------------
\* C39  Resume All sends a resume only to an enabled agent whose status,
\* fetched just before, is reachable with incomplete orders and not
\* executing, and to no agent twice; when its loop is over every enabled
\* agent of the registry has been counted exactly once, as resumed, failed
\* or skipped; and the loop of the Flet application sends its resumes to the
\* same agents for the same statuses.
\* ------------------------------------------------------------------------
Occurrences(q, k) == Cardinality({n \in DOMAIN q : q[n] = k})

C39_ResumeAllOncePerAgent ==
    [][ /\ sent'.src = "resume_all"
           => /\ sent'.kind = "resume"
              /\ Enabled(sent'.agent)
              /\ bulk'.status = "idle"
              /\ bulk'.has_incomplete_orders
              /\ Occurrences(bulk'.resumed, sent'.agent) = 1
        /\ bulk'.flet_resumed = bulk'.resumed
        /\ (bulk.at = "loop" /\ bulk'.at = "done")
           => /\ \A a \in Agents : Enabled(a) => Occurrences(bulk.counted, a) = 1
              /\ bulk.successes + bulk.failures + bulk.skipped = Len(bulk.counted)
      ]_vars


\* ------------------------------------------------------------------------
\* C40  After the window is closed (polling_active False) the poll loop
\* begins no new round: the thread goes from its sleep to its end and from
\* nowhere to the refresh of a round, and it does come to an end.
\* ------------------------------------------------------------------------
PollEnded == pc["poll"] \in {"done", "crashed"}

C40_PollThreadTerminates ==
    /\ [][ ~polling_active
           => /\ pc'["poll"] = "refresh" => pc["poll"] = "refresh"
              /\ pc["poll"] = "sleep" => pc'["poll"] \in {"sleep", "done"}
              /\ PollEnded => pc'["poll"] = pc["poll"] ]_vars
    /\ (~polling_active) ~> PollEnded

\* The window is closed and the poll thread has left its loop after the
\* sleep of its last round, while the stop worker of a fired timer is still
\* running.
C40_Witness ==
    /\ ~polling_active
    /\ pc["poll"] = "done"
    /\ pc["ui"] = "closed"
    /\ Live(active_timers) = {}
    /\ workers["a1"].settle > 0

====
